---- MODULE Spec2Model ----
(***************************************************************************)
(* Audiobook preparation utilities: the word-count analyzer with its       *)
(* long-file splitter (word_count_analyzer_enhanced.py).                   *)
(*                                                                         *)
(* A file's content is a sequence of chunks: a chunk is either the line    *)
(* separator or a maximal run of characters without a separator, recorded  *)
(* by its number of non-whitespace (nw) and whitespace (ws) characters.    *)
(* An empty line has no chunk.  A file name is its base name followed by   *)
(* the suffix labels appended to it (the extension .txt is implied).       *)
(***************************************************************************)
EXTENDS Integers, Sequences, FiniteSets, TLC

VARIABLES
    fs,                  \* the folder: file name -> content
    pc,                  \* position of the program
    faults,              \* I/O errors raised so far
    errlog,              \* "Error reading ..." lines printed by count_words_in_file
    txt_files,           \* analyze_folder: result of glob("*.txt")
    k,                   \* analyze_folder / split_selected_files: loop position
    file_data,           \* analyze_folder: one record per analyzed file
    long_files,          \* analyze_folder: <<filename, word_count>> of files over the threshold
    csv,                 \* rows of the CSV report
    file_vars,           \* dialog: checkbox per long file
    selected_files,      \* split_selected_files: the files to split
    success_count,       \* split_selected_files
    error_count,         \* split_selected_files
    summary,             \* split_selected_files: the message box shown at the end
    file_path,           \* split_text_file: argument
    word_count,          \* split_text_file: argument
    lines,               \* split_text_file: content.split('\n')
    parts,               \* split_text_file
    suffixes,            \* split_text_file
    current_word_count,  \* split_text_file
    split_positions,     \* split_text_file
    i,                   \* split_text_file: loop index (0-based)
    created_files,       \* split_text_file
    result,              \* split_text_file: returned list
    novel_file,          \* split_novel_by_chapters: the input file
    novel_lines,         \* split_novel_by_chapters: content.split('\n')
    nv_i,                \* split_novel_by_chapters: loop position (0-based)
    chapters,            \* split_novel_by_chapters
    current_chapter,     \* split_novel_by_chapters: <<>> for None
    current_content,     \* split_novel_by_chapters
    out_folder,          \* split_novel_by_chapters: file name -> content
    nv_report,           \* split_novel_by_chapters: the last message printed
    llm_mode,            \* generator: "single" (--text-file) or "batch" (--folder)
    llm_files,           \* generator: the input files and what the API answers for each
    llm_i,               \* generator: the file being processed (from 1)
    llm_text,            \* generate_json_for_file: response_text
    llm_ret,             \* generate_json_for_file: returned value, <<>> for None
    llm_out,             \* generator: file index -> content of its output file
    results,             \* batch_process_folder
    trace,               \* generator: calls, API requests, returns and delays in order
    llm_report,          \* main: the last message printed
    mainloop,            \* GeminiGUI: root.mainloop() is running
    start_button,        \* GeminiGUI: state of the Start button
    processing_mode,     \* GeminiGUI: the StringVar of the radio buttons
    input_path_var,      \* GeminiGUI: what the path in the entry names
    api_key_var,         \* GeminiGUI: the API key entry
    prompt_text,         \* GeminiGUI: the prompt text
    messagebox,          \* GeminiGUI: the error dialog open, "none" without one
    workers,             \* GeminiGUI: the process_files threads started so far
    after_queue,         \* GeminiGUI: callbacks queued with root.after and not yet run
    progress_text        \* GeminiGUI: the last outcome written to the progress log

progVars == <<errlog, txt_files, k, file_data, long_files, csv, file_vars,
              selected_files, success_count, error_count, summary>>
splitVars == <<file_path, word_count, lines, parts, suffixes,
               current_word_count, split_positions, i, created_files, result>>
novelVars == <<novel_file, novel_lines, nv_i, chapters, current_chapter,
               current_content, out_folder, nv_report>>
llmVars == <<llm_mode, llm_files, llm_i, llm_text, llm_ret, llm_out, results, trace,
            llm_report>>
guiVars == <<mainloop, start_button, processing_mode, input_path_var, api_key_var,
            prompt_text, messagebox, workers, after_queue, progress_text>>
wcVars == <<fs, progVars, splitVars>>
\* what the analyzer leaves alone
otherVars == <<novelVars, llmVars, guiVars>>
vars == <<fs, pc, faults, progVars, splitVars, novelVars, llmVars, guiVars>>

(***************************************************************************)
(* Bounds                                                                  *)
(***************************************************************************)
MaxLines == 3      \* longest document, in lines
MaxRuns == 2       \* most Start clicks that pass the validation
MaxFaults == 1     \* I/O errors raised in one run
MaxFiles == 2      \* files in the analyzed folder

(***************************************************************************)
(* Text                                                                    *)
(***************************************************************************)
Threshold == 4000

Line(nw, ws) == [nl |-> FALSE, nw |-> nw, ws |-> ws]

NL == [nl |-> TRUE, nw |-> 0, ws |-> 1]

EmptyLine == Line(0, 0)

\* len([char for char in content if char.strip()])
RECURSIVE count_words(_)
count_words(content) ==
    IF content = <<>> THEN 0
    ELSE Head(content).nw + count_words(Tail(content))

line_word_count(line) == line.nw

\* content.split('\n'), cur being the line read so far
RECURSIVE SplitFrom(_, _)
SplitFrom(content, cur) ==
    IF content = <<>> THEN <<cur>>
    ELSE IF Head(content).nl
         THEN <<cur>> \o SplitFrom(Tail(content), EmptyLine)
         ELSE SplitFrom(Tail(content),
                        Line(cur.nw + Head(content).nw, cur.ws + Head(content).ws))

SplitLines(content) == SplitFrom(content, EmptyLine)

\* '\n'.join(ls)
RECURSIVE JoinLines(_)
JoinLines(ls) ==
    IF ls = <<>> THEN <<>>
    ELSE LET h == IF Head(ls) = EmptyLine THEN <<>> ELSE <<Head(ls)>>
         IN  IF Len(ls) = 1 THEN h
             ELSE h \o <<NL>> \o JoinLines(Tail(ls))

\* ls[a:b]
Slice(ls, a, b) ==
    LET hi == IF b < Len(ls) THEN b ELSE Len(ls)
    IN  SubSeq(ls, a + 1, hi)

(***************************************************************************)
(* File names                                                              *)
(***************************************************************************)
Shang == [kind |-> "cn", n |-> 1]
Zhong == [kind |-> "cn", n |-> 2]
Xia == [kind |-> "cn", n |-> 3]
Num(n) == [kind |-> "num", n |-> n]

Name(base, sfx) == [base |-> base, sfx |-> sfx]

\* f"{base_name}{suffixes[i]}.txt" in the directory of file_path
PartName(path, suffix) == Name(path.base, Append(path.sfx, suffix))

WriteFile(folder, name, content) ==
    [f \in DOMAIN folder \cup {name} |-> IF f = name THEN content ELSE folder[f]]

Unlink(folder, name) == [f \in DOMAIN folder \ {name} |-> folder[f]]

(***************************************************************************)
(* split_text_file: the part plan and the scan                             *)
(***************************************************************************)
\* PartPlan with the general branch dividing the count itself
PartPlan_div(wc) ==
    IF 4000 < wc /\ wc < 8000
    THEN [parts |-> 2, suffixes |-> <<Shang, Xia>>]
    ELSE IF 8000 <= wc /\ wc < 12000
    THEN [parts |-> 3, suffixes |-> <<Shang, Zhong, Xia>>]
    ELSE LET p == (wc \div 4000) + 1
         IN  [parts |-> p, suffixes |-> [j \in 1..p |-> Num(j)]]

PartPlan(wc) ==
    IF 4000 < wc /\ wc < 8000
    THEN [parts |-> 2, suffixes |-> <<Shang, Xia>>]
    ELSE IF 8000 <= wc /\ wc < 12000
    THEN [parts |-> 3, suffixes |-> <<Shang, Zhong, Xia>>]
    ELSE LET p == ((wc - 1) \div 4000) + 1
         IN  [parts |-> p, suffixes |-> [j \in 1..p |-> Num(j)]]

\* ShouldSplit asking for more than the expected split point
ShouldSplit_gt(cwc, positions, nparts) ==
    LET expected_split_point == Len(positions) * Threshold
    IN  cwc > expected_split_point /\ Len(positions) < nparts

\* the test made after each line of the scan
ShouldSplit(cwc, positions, nparts) ==
    LET expected_split_point == Len(positions) * Threshold
    IN  cwc >= expected_split_point /\ Len(positions) < nparts

\* FinalPositions that never closes the list
FinalPositions_open(positions, nparts, nlines) == positions

\* "Ensure we have the final position"
FinalPositions(positions, nparts, nlines) ==
    IF Len(positions) < nparts + 1 THEN Append(positions, nlines) ELSE positions

\* lines of part j (0-based) as the write loop takes them
PartLines(ls, positions, j) ==
    LET start_line == positions[j + 1]
        end_line == IF j + 1 < Len(positions) THEN positions[j + 2] ELSE Len(ls)
    IN  Slice(ls, start_line, end_line)

(***************************************************************************)
(* split_text_file, step by step                                           *)
(***************************************************************************)
SplitReadOk ==
    /\ pc = "split_read"
    /\ file_path \in DOMAIN fs
    /\ lines' = SplitLines(fs[file_path])
    /\ pc' = "split_plan"
    /\ UNCHANGED otherVars
    /\ UNCHANGED <<fs, faults, progVars, file_path, word_count, parts, suffixes,
                   current_word_count, split_positions, i, created_files, result>>

SplitReadFail ==
    /\ pc = "split_read"
    /\ \/ file_path \notin DOMAIN fs /\ faults' = faults
       \/ file_path \in DOMAIN fs /\ faults < MaxFaults /\ faults' = faults + 1
    /\ result' = <<>>
    /\ pc' = "split_ret"
    /\ UNCHANGED otherVars
    /\ UNCHANGED <<fs, progVars, file_path, word_count, lines, parts, suffixes,
                   current_word_count, split_positions, i, created_files>>

SplitPlan ==
    /\ pc = "split_plan"
    /\ parts' = PartPlan(word_count).parts
    /\ suffixes' = PartPlan(word_count).suffixes
    /\ current_word_count' = 0
    /\ split_positions' = <<0>>
    /\ i' = 0
    /\ pc' = "split_scan"
    /\ UNCHANGED otherVars
    /\ UNCHANGED <<fs, faults, progVars, file_path, word_count, lines,
                   created_files, result>>

SplitScanLine ==
    /\ pc = "split_scan"
    /\ i < Len(lines)
    /\ current_word_count' = current_word_count + line_word_count(lines[i + 1])
    /\ split_positions' =
          IF ShouldSplit(current_word_count', split_positions, parts)
          THEN Append(split_positions, i + 1)
          ELSE split_positions
    /\ i' = i + 1
    /\ UNCHANGED otherVars
    /\ UNCHANGED <<fs, pc, faults, progVars, file_path, word_count, lines, parts,
                   suffixes, created_files, result>>

SplitScanEnd ==
    /\ pc = "split_scan"
    /\ i = Len(lines)
    /\ split_positions' = FinalPositions(split_positions, parts, Len(lines))
    /\ created_files' = <<>>
    /\ i' = 0
    /\ pc' = "split_write"
    /\ UNCHANGED otherVars
    /\ UNCHANGED <<fs, faults, progVars, file_path, word_count, lines, parts,
                   suffixes, current_word_count, result>>

SplitWriteOk ==
    /\ pc = "split_write"
    /\ i < parts
    /\ i < Len(split_positions)
    /\ LET new_file_path == PartName(file_path, suffixes[i + 1])
           split_content == JoinLines(PartLines(lines, split_positions, i))
       IN  /\ fs' = WriteFile(fs, new_file_path, split_content)
           /\ created_files' = Append(created_files, new_file_path)
    /\ i' = i + 1
    /\ UNCHANGED otherVars
    /\ UNCHANGED <<pc, faults, progVars, file_path, word_count, lines, parts,
                   suffixes, current_word_count, split_positions, result>>

\* SplitWriteFail returning the parts written so far
SplitWriteFail_partial ==
    /\ pc = "split_write"
    /\ i < parts
    /\ i < Len(split_positions)
    /\ faults < MaxFaults
    /\ faults' = faults + 1
    /\ fs' \in {fs, WriteFile(fs, PartName(file_path, suffixes[i + 1]), <<>>)}
    /\ result' = created_files
    /\ pc' = "split_ret"
    /\ UNCHANGED otherVars
    /\ UNCHANGED <<progVars, file_path, word_count, lines, parts, suffixes,
                   current_word_count, split_positions, i, created_files>>

\* open(new_file_path, 'w') or write raises: the part is missing or left empty
SplitWriteFail ==
    /\ pc = "split_write"
    /\ i < parts
    /\ i < Len(split_positions)
    /\ faults < MaxFaults
    /\ faults' = faults + 1
    /\ fs' \in {fs, WriteFile(fs, PartName(file_path, suffixes[i + 1]), <<>>)}
    /\ result' = <<>>
    /\ pc' = "split_ret"
    /\ UNCHANGED otherVars
    /\ UNCHANGED <<progVars, file_path, word_count, lines, parts, suffixes,
                   current_word_count, split_positions, i, created_files>>

\* split_positions[i] raises IndexError
SplitIndexError ==
    /\ pc = "split_write"
    /\ i < parts
    /\ i >= Len(split_positions)
    /\ result' = <<>>
    /\ pc' = "split_ret"
    /\ UNCHANGED otherVars
    /\ UNCHANGED <<fs, faults, progVars, file_path, word_count, lines, parts,
                   suffixes, current_word_count, split_positions, i, created_files>>

\* SplitUnlinkOk leaving the write loop one part early
SplitUnlinkOk_early ==
    /\ pc = "split_write"
    /\ i >= parts - 1
    /\ file_path \in DOMAIN fs
    /\ fs' = Unlink(fs, file_path)
    /\ result' = created_files
    /\ pc' = "split_ret"
    /\ UNCHANGED otherVars
    /\ UNCHANGED <<faults, progVars, file_path, word_count, lines, parts, suffixes,
                   current_word_count, split_positions, i, created_files>>

SplitUnlinkOk ==
    /\ pc = "split_write"
    /\ i >= parts
    /\ file_path \in DOMAIN fs
    /\ fs' = Unlink(fs, file_path)
    /\ result' = created_files
    /\ pc' = "split_ret"
    /\ UNCHANGED otherVars
    /\ UNCHANGED <<faults, progVars, file_path, word_count, lines, parts, suffixes,
                   current_word_count, split_positions, i, created_files>>

SplitUnlinkFail ==
    /\ pc = "split_write"
    /\ i >= parts
    /\ \/ file_path \notin DOMAIN fs /\ faults' = faults
       \/ file_path \in DOMAIN fs /\ faults < MaxFaults /\ faults' = faults + 1
    /\ result' = <<>>
    /\ pc' = "split_ret"
    /\ UNCHANGED otherVars
    /\ UNCHANGED <<fs, progVars, file_path, word_count, lines, parts, suffixes,
                   current_word_count, split_positions, i, created_files>>

SplitStep ==
    \/ SplitReadOk
    \/ SplitReadFail
    \/ SplitPlan
    \/ SplitScanLine
    \/ SplitScanEnd
    \/ SplitWriteOk
    \/ SplitWriteFail
    \/ SplitIndexError
    \/ SplitUnlinkOk
    \/ SplitUnlinkFail

(***************************************************************************)
(* analyze_folder                                                          *)
(***************************************************************************)
Perms(S) == {s \in [1..Cardinality(S) -> S] : \A a, b \in DOMAIN s : s[a] = s[b] => a = b}

\* IsLong with the threshold itself counted as too long
IsLong_ge(wc) == wc >= Threshold

\* "if word_count > 4000" 
IsLong(wc) == wc > Threshold

ReportRow(filename, wc) ==
    [filename |-> filename, word_count |-> wc,
     status |-> IF wc > Threshold THEN "Too Long" ELSE "Safe"]

\* list.sort(key=word_count, reverse=True): stable, descending
InsertDesc(sorted, r) ==
    LET pos == Cardinality({j \in 1..Len(sorted) : sorted[j].word_count >= r.word_count})
    IN  SubSeq(sorted, 1, pos) \o <<r>> \o SubSeq(sorted, pos + 1, Len(sorted))

RECURSIVE SortDesc(_)
SortDesc(s) ==
    IF s = <<>> THEN <<>>
    ELSE InsertDesc(SortDesc(SubSeq(s, 1, Len(s) - 1)), s[Len(s)])

\* the body of the loop over txt_files, wc being what count_words_in_file returned
AnalyzeRecord(txt_file, wc) ==
    /\ file_data' = Append(file_data, [filename |-> txt_file, word_count |-> wc,
                                       path |-> txt_file])
    /\ long_files' = IF IsLong(wc)
                     THEN Append(long_files, [filename |-> txt_file, word_count |-> wc,
                                              path |-> txt_file])
                     ELSE long_files
    /\ k' = k + 1

NoTxtFiles ==
    /\ pc = "start"
    /\ DOMAIN fs = {}
    /\ pc' = "done"
    /\ UNCHANGED otherVars
    /\ UNCHANGED <<fs, faults, progVars, splitVars>>

\* folder_path.glob("*.txt"): the files in directory order
Glob ==
    /\ pc = "start"
    /\ DOMAIN fs # {}
    /\ txt_files' \in Perms(DOMAIN fs)
    /\ k' = 1
    /\ pc' = "analyze"
    /\ UNCHANGED otherVars
    /\ UNCHANGED <<fs, faults, errlog, file_data, long_files, csv, file_vars,
                   selected_files, success_count, error_count, summary, splitVars>>

CountWordsOk ==
    /\ pc = "analyze"
    /\ k <= Len(txt_files)
    /\ txt_files[k] \in DOMAIN fs
    /\ AnalyzeRecord(txt_files[k], count_words(fs[txt_files[k]]))
    /\ UNCHANGED otherVars
    /\ UNCHANGED <<fs, pc, faults, errlog, txt_files, csv, file_vars, selected_files,
                   success_count, error_count, summary, splitVars>>

\* count_words_in_file catches the error, prints it and returns 0
CountWordsFail ==
    /\ pc = "analyze"
    /\ k <= Len(txt_files)
    /\ faults < MaxFaults
    /\ faults' = faults + 1
    /\ errlog' = errlog \cup {txt_files[k]}
    /\ AnalyzeRecord(txt_files[k], 0)
    /\ UNCHANGED otherVars
    /\ UNCHANGED <<fs, pc, txt_files, csv, file_vars, selected_files,
                   success_count, error_count, summary, splitVars>>

WriteReport ==
    /\ file_data' = SortDesc(file_data)
    /\ csv' = [j \in 1..Len(file_data) |->
                 ReportRow(SortDesc(file_data)[j].filename,
                           SortDesc(file_data)[j].word_count)]

ReportAllSafe ==
    /\ pc = "analyze"
    /\ k > Len(txt_files)
    /\ long_files = <<>>
    /\ WriteReport
    /\ pc' = "done"
    /\ UNCHANGED otherVars
    /\ UNCHANGED <<fs, faults, errlog, txt_files, k, long_files, file_vars,
                   selected_files, success_count, error_count, summary, splitVars>>

\* show_long_files_dialog: every long file gets a checkbox, selected by default
ReportLongFiles ==
    /\ pc = "analyze"
    /\ k > Len(txt_files)
    /\ long_files # <<>>
    /\ WriteReport
    /\ file_vars' = [p \in {long_files[j].path : j \in 1..Len(long_files)} |-> TRUE]
    /\ pc' = "dialog"
    /\ UNCHANGED otherVars
    /\ UNCHANGED <<fs, faults, errlog, txt_files, k, long_files,
                   selected_files, success_count, error_count, summary, splitVars>>

(***************************************************************************)
(* The long-files dialog                                                   *)
(***************************************************************************)
Toggle ==
    /\ pc = "dialog"
    /\ \E p \in DOMAIN file_vars : file_vars' = [file_vars EXCEPT ![p] = ~file_vars[p]]
    /\ UNCHANGED otherVars
    /\ UNCHANGED <<fs, pc, faults, errlog, txt_files, k, file_data, long_files, csv,
                   selected_files, success_count, error_count, summary, splitVars>>

select_all ==
    /\ pc = "dialog"
    /\ file_vars' = [p \in DOMAIN file_vars |-> TRUE]
    /\ file_vars' # file_vars
    /\ UNCHANGED otherVars
    /\ UNCHANGED <<fs, pc, faults, errlog, txt_files, k, file_data, long_files, csv,
                   selected_files, success_count, error_count, summary, splitVars>>

deselect_all ==
    /\ pc = "dialog"
    /\ file_vars' = [p \in DOMAIN file_vars |-> FALSE]
    /\ file_vars' # file_vars
    /\ UNCHANGED otherVars
    /\ UNCHANGED <<fs, pc, faults, errlog, txt_files, k, file_data, long_files, csv,
                   selected_files, success_count, error_count, summary, splitVars>>

cancel_dialog ==
    /\ pc = "dialog"
    /\ pc' = "done"
    /\ UNCHANGED otherVars
    /\ UNCHANGED <<fs, faults, progVars, splitVars>>

\* the checked files, in the order of long_files
RECURSIVE Selected(_, _)
Selected(lf, fv) ==
    IF lf = <<>> THEN <<>>
    ELSE (IF fv[Head(lf).path] THEN <<Head(lf)>> ELSE <<>>) \o Selected(Tail(lf), fv)

\* split_selected_files with a non-empty selection, confirmed by the user
\* (with no selection, or when the user answers no, it returns and the
\* dialog stays as it is)
split_selected_files ==
    /\ pc = "dialog"
    /\ Selected(long_files, file_vars) # <<>>
    /\ selected_files' = Selected(long_files, file_vars)
    /\ success_count' = 0
    /\ error_count' = 0
    /\ k' = 1
    /\ pc' = "batch"
    /\ UNCHANGED otherVars
    /\ UNCHANGED <<fs, faults, errlog, txt_files, file_data, long_files, csv,
                   file_vars, summary, splitVars>>

\* self.split_text_file(Path(file_path), word_count)
BatchCall ==
    /\ pc = "batch"
    /\ k <= Len(selected_files)
    /\ file_path' = selected_files[k].path
    /\ word_count' = selected_files[k].word_count
    /\ pc' = "split_read"
    /\ UNCHANGED otherVars
    /\ UNCHANGED <<fs, faults, progVars, lines, parts, suffixes, current_word_count,
                   split_positions, i, created_files, result>>

\* BatchReturn leaving the loop at the first failure
BatchReturn_abort ==
    /\ pc = "split_ret"
    /\ IF result # <<>>
       THEN /\ success_count' = success_count + 1
            /\ error_count' = error_count
            /\ k' = k + 1
       ELSE /\ error_count' = error_count + 1
            /\ success_count' = success_count
            /\ k' = Len(selected_files) + 1
    /\ pc' = "batch"
    /\ UNCHANGED otherVars
    /\ UNCHANGED <<fs, faults, errlog, txt_files, file_data, long_files, csv,
                   file_vars, selected_files, summary, splitVars>>

\* "if created_files: success_count += 1 else: error_count += 1"
BatchReturn ==
    /\ pc = "split_ret"
    /\ IF result # <<>>
       THEN success_count' = success_count + 1 /\ error_count' = error_count
       ELSE error_count' = error_count + 1 /\ success_count' = success_count
    /\ k' = k + 1
    /\ pc' = "batch"
    /\ UNCHANGED otherVars
    /\ UNCHANGED <<fs, faults, errlog, txt_files, file_data, long_files, csv,
                   file_vars, selected_files, summary, splitVars>>

\* the message box with the counts of successes and failures
BatchSummary ==
    /\ pc = "batch"
    /\ k > Len(selected_files)
    /\ summary' = IF error_count = 0 THEN "Split Complete"
                  ELSE "Split Completed with Errors"
    /\ pc' = "done"
    /\ UNCHANGED otherVars
    /\ UNCHANGED <<fs, faults, errlog, txt_files, k, file_data, long_files, csv,
                   file_vars, selected_files, success_count, error_count, splitVars>>

(***************************************************************************)
(* novel_splitter.py: split_novel_by_chapters                              *)
(*                                                                         *)
(* A line of the novel is recorded by its leading and trailing whitespace, *)
(* and either the pieces of a would-be chapter header (the digits after    *)
(* the chapter mark, the number of blanks before the title, the title's    *)
(* characters) or its text.                                                *)
(***************************************************************************)
NovelLine(ws_lead, mark, num, sep, title, txt, ws_trail) ==
    [ws_lead |-> ws_lead, mark |-> mark, num |-> num, sep |-> sep,
     title |-> title, txt |-> txt, ws_trail |-> ws_trail]

NovelEmpty == NovelLine(0, FALSE, <<>>, 0, <<>>, "", 0)

NovelNL == NovelLine(0, FALSE, <<>>, 0, <<>>, "\n", 0)

\* content.split('\n'); contents are joined lines, so that every chunk
\* between two separators is one line
RECURSIVE NovelSplitFrom(_, _)
NovelSplitFrom(content, cur) ==
    IF content = <<>> THEN <<cur>>
    ELSE IF Head(content) = NovelNL
         THEN <<cur>> \o NovelSplitFrom(Tail(content), NovelEmpty)
         ELSE NovelSplitFrom(Tail(content), Head(content))

NovelSplit(content) == NovelSplitFrom(content, NovelEmpty)

\* '\n'.join(ls)
RECURSIVE NovelJoin(_)
NovelJoin(ls) ==
    IF ls = <<>> THEN <<>>
    ELSE LET h == IF Head(ls) = NovelEmpty THEN <<>> ELSE <<Head(ls)>>
         IN  IF Len(ls) = 1 THEN h
             ELSE h \o <<NovelNL>> \o NovelJoin(Tail(ls))

\* line.strip()
Strip(line) == [line EXCEPT !.ws_lead = 0, !.ws_trail = 0]

\* re.match(r'^第(\d+)章\s+(.+)$', line)
IsChapterHeader(line) ==
    /\ line.ws_lead = 0
    /\ line.mark
    /\ Len(line.num) >= 1
    /\ line.sep >= 1
    /\ Len(line.title) >= 1

InvalidChars == {"<", ">", ":", "\"", "/", "\\", "|", "?", "*"}

\* re.sub(r'[<>:"/\\|?*]', '', title)
CleanTitle(title) ==
    LET keep(c) == c \notin InvalidChars
    IN  SelectSeq(title, keep)

\* number.zfill(width)
ZFill(num, width) ==
    IF Len(num) >= width THEN num
    ELSE [j \in 1..width |->
            IF j <= width - Len(num) THEN 0 ELSE num[j - (width - Len(num))]]

\* f"第{chapter['number'].zfill(4)}章_{clean_title}.txt"
ChapterFile(chapter) ==
    [number |-> ZFill(chapter.number, 4), title |-> CleanTitle(chapter.title)]

\* "Save previous chapter if exists" / "Don't forget the last chapter"
SaveChapter(chs, cur, content) ==
    IF cur # <<>>
    THEN Append(chs, [number |-> cur[1].number, title |-> cur[1].title,
                      content |-> NovelJoin(content)])
    ELSE chs

NovelIdle ==
    /\ novel_file = [exists |-> FALSE, content |-> <<>>]
    /\ novel_lines = <<>>
    /\ nv_i = 0
    /\ chapters = <<>>
    /\ current_chapter = <<>>
    /\ current_content = <<>>
    /\ out_folder = <<>>
    /\ nv_report = [status |-> "none", count |-> 0]

notNovel == <<wcVars, llmVars, guiVars>>

NovelNotFound ==
    /\ pc = "novel_start"
    /\ ~novel_file.exists
    /\ nv_report' = [status |-> "not found", count |-> 0]
    /\ pc' = "novel_done"
    /\ UNCHANGED <<faults, novel_file, novel_lines, nv_i, chapters, current_chapter,
                   current_content, out_folder, notNovel>>

NovelReadOk ==
    /\ pc = "novel_start"
    /\ novel_file.exists
    /\ novel_lines' = NovelSplit(novel_file.content)
    /\ chapters' = <<>>
    /\ current_chapter' = <<>>
    /\ current_content' = <<>>
    /\ nv_i' = 0
    /\ pc' = "novel_scan"
    /\ UNCHANGED <<faults, novel_file, out_folder, nv_report, notNovel>>

NovelReadFail ==
    /\ pc = "novel_start"
    /\ novel_file.exists
    /\ faults < MaxFaults
    /\ faults' = faults + 1
    /\ nv_report' = [status |-> "error", count |-> 0]
    /\ pc' = "novel_done"
    /\ UNCHANGED <<novel_file, novel_lines, nv_i, chapters, current_chapter,
                   current_content, out_folder, notNovel>>

NovelScanLine ==
    /\ pc = "novel_scan"
    /\ nv_i < Len(novel_lines)
    /\ LET line == Strip(novel_lines[nv_i + 1])
       IN  IF IsChapterHeader(line)
           THEN /\ chapters' = SaveChapter(chapters, current_chapter, current_content)
                /\ current_chapter' = <<[number |-> line.num, title |-> line.title]>>
                /\ current_content' = <<line>>
           ELSE /\ chapters' = chapters
                /\ current_chapter' = current_chapter
                /\ current_content' = IF current_chapter # <<>>
                                      THEN Append(current_content, line)
                                      ELSE current_content
    /\ nv_i' = nv_i + 1
    /\ UNCHANGED <<pc, faults, novel_file, novel_lines, out_folder, nv_report, notNovel>>

NovelScanEnd ==
    /\ pc = "novel_scan"
    /\ nv_i = Len(novel_lines)
    /\ chapters' = SaveChapter(chapters, current_chapter, current_content)
    /\ nv_i' = 0
    /\ pc' = "novel_write"
    /\ UNCHANGED <<faults, novel_file, novel_lines, current_chapter, current_content,
                   out_folder, nv_report, notNovel>>

NovelWriteOk ==
    /\ pc = "novel_write"
    /\ nv_i < Len(chapters)
    /\ out_folder' = WriteFile(out_folder, ChapterFile(chapters[nv_i + 1]),
                               chapters[nv_i + 1].content)
    /\ nv_i' = nv_i + 1
    /\ UNCHANGED <<pc, faults, novel_file, novel_lines, chapters, current_chapter,
                   current_content, nv_report, notNovel>>

\* open or write raises: the chapter file is missing or left empty
NovelWriteFail ==
    /\ pc = "novel_write"
    /\ nv_i < Len(chapters)
    /\ faults < MaxFaults
    /\ faults' = faults + 1
    /\ out_folder' \in {out_folder,
                        WriteFile(out_folder, ChapterFile(chapters[nv_i + 1]), <<>>)}
    /\ nv_report' = [status |-> "error", count |-> 0]
    /\ pc' = "novel_done"
    /\ UNCHANGED <<novel_file, novel_lines, nv_i, chapters, current_chapter,
                   current_content, notNovel>>

\* "Successfully split {len(chapters)} chapters"
NovelReport ==
    /\ pc = "novel_write"
    /\ nv_i = Len(chapters)
    /\ nv_report' = [status |-> "ok", count |-> Len(chapters)]
    /\ pc' = "novel_done"
    /\ UNCHANGED <<faults, novel_file, novel_lines, nv_i, chapters, current_chapter,
                   current_content, out_folder, notNovel>>

NextNovel ==
    \/ NovelNotFound
    \/ NovelReadOk
    \/ NovelReadFail
    \/ NovelScanLine
    \/ NovelScanEnd
    \/ NovelWriteOk
    \/ NovelWriteFail
    \/ NovelReport

(***************************************************************************)
(* gemini JSON generator: generate_json_for_file, batch_process_folder and *)
(* the command line's main                                                 *)
(*                                                                         *)
(* A response text is a sequence of tokens: the brackets and the comma of  *)
(* JSON, the scalars 1, 0 and null, "obj" for a non-empty object without   *)
(* brackets inside (such as {"a": 1}), and "t" for a word of prose.        *)
(***************************************************************************)
Tokens == {"[", "]", ",", "1", "0", "null", "obj", "t"}

JArray(items) == [type |-> "array", items |-> items, n |-> 0]
JNumber(n) == [type |-> "number", items |-> <<>>, n |-> n]
JNull == [type |-> "null", items |-> <<>>, n |-> 0]
JObject == [type |-> "object", items |-> <<>>, n |-> 1]

ParseError == [ok |-> FALSE, val |-> JNull, rest |-> <<>>]

\* json.loads: the value at the head of the tokens and what follows it
RECURSIVE ParseValue(_)
RECURSIVE ParseElems(_, _)
ParseValue(t) ==
    IF t = <<>> THEN ParseError
    ELSE IF Head(t) = "1" THEN [ok |-> TRUE, val |-> JNumber(1), rest |-> Tail(t)]
    ELSE IF Head(t) = "0" THEN [ok |-> TRUE, val |-> JNumber(0), rest |-> Tail(t)]
    ELSE IF Head(t) = "null" THEN [ok |-> TRUE, val |-> JNull, rest |-> Tail(t)]
    ELSE IF Head(t) = "obj" THEN [ok |-> TRUE, val |-> JObject, rest |-> Tail(t)]
    ELSE IF Head(t) = "["
         THEN IF Tail(t) # <<>> /\ Head(Tail(t)) = "]"
              THEN [ok |-> TRUE, val |-> JArray(<<>>), rest |-> Tail(Tail(t))]
              ELSE ParseElems(Tail(t), <<>>)
    ELSE ParseError

ParseElems(t, acc) ==
    LET r == ParseValue(t)
    IN  IF ~r.ok \/ r.rest = <<>> THEN ParseError
        ELSE IF Head(r.rest) = ","
             THEN ParseElems(Tail(r.rest), Append(acc, r.val))
        ELSE IF Head(r.rest) = "]"
             THEN [ok |-> TRUE, val |-> JArray(Append(acc, r.val)), rest |-> Tail(r.rest)]
        ELSE ParseError

\* json.loads(json_text): <<value>>, or <<>> for JSONDecodeError
json_loads(t) ==
    LET r == ParseValue(t)
    IN  IF r.ok /\ r.rest = <<>> THEN <<r.val>> ELSE <<>>

\* json.dump(parsed_json, f)
RECURSIVE json_dump(_)
RECURSIVE DumpItems(_)
json_dump(v) ==
    IF v.type = "array" THEN <<"[">> \o DumpItems(v.items) \o <<"]">>
    ELSE IF v.type = "number" THEN (IF v.n = 0 THEN <<"0">> ELSE <<"1">>)
    ELSE IF v.type = "null" THEN <<"null">>
    ELSE <<"obj">>

DumpItems(items) ==
    IF items = <<>> THEN <<>>
    ELSE IF Len(items) = 1 THEN json_dump(items[1])
    ELSE json_dump(items[1]) \o <<",">> \o DumpItems(Tail(items))

\* response_text.find(c): index from 0, or -1
find(t, c) ==
    IF \E j \in 1..Len(t) : t[j] = c
    THEN (CHOOSE j \in 1..Len(t) : t[j] = c /\ \A h \in 1..(j - 1) : t[h] # c) - 1
    ELSE -1

\* response_text.rfind(c): index from 0, or -1
rfind(t, c) ==
    IF \E j \in 1..Len(t) : t[j] = c
    THEN (CHOOSE j \in 1..Len(t) : t[j] = c /\ \A h \in (j + 1)..Len(t) : t[h] # c) - 1
    ELSE -1

\* "Try to extract JSON from response"
ExtractJson(response_text) ==
    LET json_start == find(response_text, "[")
        json_end == rfind(response_text, "]") + 1
    IN  IF json_start # -1 /\ json_end # -1
        THEN Slice(response_text, json_start, json_end)
        ELSE response_text

\* Python's truth value of a parsed JSON value
Truthy(v) ==
    IF v.type = "array" THEN Len(v.items) > 0
    ELSE IF v.type = "number" THEN v.n # 0
    ELSE IF v.type = "null" THEN FALSE
    ELSE TRUE

\* `if result:` on what generate_json_for_file returned
IfResult(ret) == ret # <<>> /\ Truthy(ret[1])

\* `result is not None`; json.loads("null") is None as well
IsNotNone(ret) == ret # <<>> /\ ret[1].type # "null"

\* the delay also after the last file
NeedsDelay_le(idx, total_files) == idx <= total_files

\* `if i < total_files: time.sleep(2)`
NeedsDelay(idx, total_files) == idx < total_files

Event(ev, idx) == [ev |-> ev, idx |-> idx]

LlmIdle ==
    /\ llm_mode = "none"
    /\ llm_files = <<>>
    /\ llm_i = 0
    /\ llm_text = <<>>
    /\ llm_ret = <<>>
    /\ llm_out = <<>>
    /\ results = <<>>
    /\ trace = <<>>
    /\ llm_report = "none"

notLlm == <<wcVars, novelVars, guiVars>>

\* main with --text-file
LlmStartSingle ==
    /\ pc = "llm_start"
    /\ llm_mode = "single"
    /\ llm_i' = 1
    /\ pc' = "llm_read"
    /\ UNCHANGED <<faults, llm_mode, llm_files, llm_text, llm_ret, llm_out, results,
                   trace, llm_report, notLlm>>

\* batch_process_folder up to the loop
LlmStartBatch ==
    /\ pc = "llm_start"
    /\ llm_mode = "batch"
    /\ llm_files # <<>>
    /\ results' = <<>>
    /\ llm_i' = 1
    /\ pc' = "llm_read"
    /\ UNCHANGED <<faults, llm_mode, llm_files, llm_text, llm_ret, llm_out, trace,
                   llm_report, notLlm>>

\* `if not txt_files: return []`, and main's count of it
LlmNoTxtFiles ==
    /\ pc = "llm_start"
    /\ llm_mode = "batch"
    /\ llm_files = <<>>
    /\ results' = <<>>
    /\ llm_report' = "batch"
    /\ pc' = "llm_done"
    /\ UNCHANGED <<faults, llm_mode, llm_files, llm_i, llm_text, llm_ret, llm_out,
                   trace, notLlm>>

\* generate_json_for_file: read_text_file returns the text
LlmReadOk ==
    /\ pc = "llm_read"
    /\ llm_files[llm_i].readable
    /\ trace' = Append(trace, Event("call", llm_i))
    /\ pc' = "llm_request"
    /\ UNCHANGED <<faults, llm_mode, llm_files, llm_i, llm_text, llm_ret, llm_out,
                   results, llm_report, notLlm>>

\* generate_json_for_file: read_text_file returns None
LlmReadFail ==
    /\ pc = "llm_read"
    /\ ~llm_files[llm_i].readable
    /\ trace' = trace \o <<Event("call", llm_i), Event("return", llm_i)>>
    /\ llm_ret' = <<>>
    /\ pc' = "llm_returned"
    /\ UNCHANGED <<faults, llm_mode, llm_files, llm_i, llm_text, llm_out, results,
                   llm_report, notLlm>>

\* generate_content answers
LlmRequestOk ==
    /\ pc = "llm_request"
    /\ ~llm_files[llm_i].raises
    /\ trace' = Append(trace, Event("request", llm_i))
    /\ llm_text' = llm_files[llm_i].response
    /\ pc' = "llm_parse"
    /\ UNCHANGED <<faults, llm_mode, llm_files, llm_i, llm_ret, llm_out, results,
                   llm_report, notLlm>>

\* generate_content raises
LlmRequestRaise ==
    /\ pc = "llm_request"
    /\ llm_files[llm_i].raises
    /\ trace' = trace \o <<Event("request", llm_i), Event("return", llm_i)>>
    /\ llm_ret' = <<>>
    /\ pc' = "llm_returned"
    /\ UNCHANGED <<faults, llm_mode, llm_files, llm_i, llm_text, llm_out, results,
                   llm_report, notLlm>>

\* json.loads raises JSONDecodeError
LlmParseFail ==
    /\ pc = "llm_parse"
    /\ json_loads(ExtractJson(llm_text)) = <<>>
    /\ trace' = Append(trace, Event("return", llm_i))
    /\ llm_ret' = <<>>
    /\ pc' = "llm_returned"
    /\ UNCHANGED <<faults, llm_mode, llm_files, llm_i, llm_text, llm_out, results,
                   llm_report, notLlm>>

\* "Save to file" and return parsed_json
LlmSaveOk ==
    /\ pc = "llm_parse"
    /\ json_loads(ExtractJson(llm_text)) # <<>>
    /\ llm_files[llm_i].has_dir
    /\ LET parsed_json == json_loads(ExtractJson(llm_text))
       IN  /\ llm_out' = WriteFile(llm_out, llm_i, json_dump(parsed_json[1]))
           /\ llm_ret' = parsed_json
    /\ trace' = Append(trace, Event("return", llm_i))
    /\ pc' = "llm_returned"
    /\ UNCHANGED <<faults, llm_mode, llm_files, llm_i, llm_text, results, llm_report,
                   notLlm>>

\* os.makedirs('') raises for an output path without a directory
LlmNoDir ==
    /\ pc = "llm_parse"
    /\ json_loads(ExtractJson(llm_text)) # <<>>
    /\ ~llm_files[llm_i].has_dir
    /\ trace' = Append(trace, Event("return", llm_i))
    /\ llm_ret' = <<>>
    /\ pc' = "llm_returned"
    /\ UNCHANGED <<faults, llm_mode, llm_files, llm_i, llm_text, llm_out, results,
                   llm_report, notLlm>>

\* makedirs, open or the write raises: no file, or the file left empty
LlmSaveFail ==
    /\ pc = "llm_parse"
    /\ json_loads(ExtractJson(llm_text)) # <<>>
    /\ llm_files[llm_i].has_dir
    /\ faults < MaxFaults
    /\ faults' = faults + 1
    /\ llm_out' \in {llm_out, WriteFile(llm_out, llm_i, <<>>)}
    /\ trace' = Append(trace, Event("return", llm_i))
    /\ llm_ret' = <<>>
    /\ pc' = "llm_returned"
    /\ UNCHANGED <<llm_mode, llm_files, llm_i, llm_text, results, llm_report, notLlm>>

\* main: `if result:` after the single file
LlmReportSingle ==
    /\ pc = "llm_returned"
    /\ llm_mode = "single"
    /\ llm_report' = IF IfResult(llm_ret) THEN "ok" ELSE "failed"
    /\ pc' = "llm_done"
    /\ UNCHANGED <<faults, llm_mode, llm_files, llm_i, llm_text, llm_ret, llm_out,
                   results, trace, notLlm>>

\* batch_process_folder: results.append, the delay, the next file or return
LlmBatchRecord ==
    /\ pc = "llm_returned"
    /\ llm_mode = "batch"
    /\ results' = Append(results, <<llm_i, IsNotNone(llm_ret)>>)
    /\ trace' = IF NeedsDelay(llm_i, Len(llm_files))
                THEN Append(trace, Event("sleep", llm_i))
                ELSE trace
    /\ IF llm_i < Len(llm_files)
       THEN /\ llm_i' = llm_i + 1
            /\ pc' = "llm_read"
            /\ llm_report' = llm_report
       ELSE /\ llm_i' = llm_i
            /\ pc' = "llm_done"
            /\ llm_report' = "batch"
    /\ UNCHANGED <<faults, llm_mode, llm_files, llm_text, llm_ret, llm_out, notLlm>>

NextLLM ==
    \/ LlmStartSingle
    \/ LlmStartBatch
    \/ LlmNoTxtFiles
    \/ LlmReadOk
    \/ LlmReadFail
    \/ LlmRequestOk
    \/ LlmRequestRaise
    \/ LlmParseFail
    \/ LlmSaveOk
    \/ LlmNoDir
    \/ LlmSaveFail
    \/ LlmReportSingle
    \/ LlmBatchRecord

(***************************************************************************)
(* gemini JSON generator: GeminiGUI                                        *)
(*                                                                         *)
(* The main thread runs the handlers of the widgets and the callbacks      *)
(* queued with root.after; every Start that passes the validation starts   *)
(* one thread running process_files.  A path is recorded by what it names: *)
(* "" (empty entry), "file", "folder" or "missing".                        *)
(***************************************************************************)
Modes == {"single", "batch"}

Paths == {"", "file", "folder", "missing"}

\* a thread running process_files(api_key, input_path, prompt); mode_at_start
\* records processing_mode when the thread was started, mode what line 329 read
Worker(pos, input_path, mode_at_start, mode) ==
    [pos |-> pos, input_path |-> input_path, mode_at_start |-> mode_at_start,
     mode |-> mode]

\* a thread that has ended: its arguments and locals are gone
Finished == Worker("finished", "", "none", "none")

\* the thread has not yet reached the end of process_files
Active(w) == w.pos # "finished"

GuiIdle ==
    /\ mainloop = FALSE
    /\ start_button = "normal"
    /\ processing_mode = "single"
    /\ input_path_var = ""
    /\ api_key_var = ""
    /\ prompt_text = "prompt"
    /\ messagebox = "none"
    /\ workers = <<>>
    /\ after_queue = 0
    /\ progress_text = "none"

notGui == <<pc, faults, wcVars, novelVars, llmVars>>

\* the user can act on the window: the main loop runs and no dialog is open
UserCanAct == mainloop /\ messagebox = "none"

\* a Radiobutton is clicked: the variable is set, then on_mode_change
on_mode_change(m) ==
    /\ UserCanAct
    /\ processing_mode' = m
    /\ input_path_var' = ""
    /\ UNCHANGED <<mainloop, start_button, api_key_var, prompt_text, messagebox,
                   workers, after_queue, progress_text, notGui>>

\* the path Entry is edited, or browse_file / browse_folder returns a name
SetInputPath(p) ==
    /\ UserCanAct
    /\ p # input_path_var
    /\ input_path_var' = p
    /\ UNCHANGED <<mainloop, start_button, processing_mode, api_key_var, prompt_text,
                   messagebox, workers, after_queue, progress_text, notGui>>

\* the API key Entry is edited
SetApiKey(v) ==
    /\ UserCanAct
    /\ v # api_key_var
    /\ api_key_var' = v
    /\ UNCHANGED <<mainloop, start_button, processing_mode, input_path_var, prompt_text,
                   messagebox, workers, after_queue, progress_text, notGui>>

\* the prompt text is edited
SetPrompt(v) ==
    /\ UserCanAct
    /\ v # prompt_text
    /\ prompt_text' = v
    /\ UNCHANGED <<mainloop, start_button, processing_mode, input_path_var, api_key_var,
                   messagebox, workers, after_queue, progress_text, notGui>>

\* the error start_processing shows for the inputs, "none" when they are valid
StartError ==
    IF api_key_var = "" THEN "no api key"
    ELSE IF input_path_var = "" THEN "no input"
    ELSE IF input_path_var = "missing" THEN "path does not exist"
    ELSE IF prompt_text = "" THEN "no prompt"
    ELSE "none"

\* start_processing returning from its validation
StartRejected ==
    /\ UserCanAct
    /\ start_button = "normal"
    /\ StartError # "none"
    /\ messagebox' = StartError
    /\ UNCHANGED <<mainloop, start_button, processing_mode, input_path_var, api_key_var,
                   prompt_text, workers, after_queue, progress_text, notGui>>

\* the error dialog is closed
DismissMessage ==
    /\ mainloop
    /\ messagebox # "none"
    /\ messagebox' = "none"
    /\ UNCHANGED <<mainloop, start_button, processing_mode, input_path_var, api_key_var,
                   prompt_text, workers, after_queue, progress_text, notGui>>

\* start_processing leaving the Start button as it is
start_processing_enabled ==
    /\ UserCanAct
    /\ start_button = "normal"
    /\ StartError = "none"
    /\ Len(workers) < MaxRuns
    /\ start_button' = start_button
    /\ workers' = Append(workers, Worker("init", input_path_var, processing_mode, "unread"))
    /\ UNCHANGED <<mainloop, processing_mode, input_path_var, api_key_var, prompt_text,
                   messagebox, after_queue, progress_text, notGui>>

\* start_processing: the Start button is clicked and the inputs are valid
start_processing ==
    /\ UserCanAct
    /\ start_button = "normal"
    /\ StartError = "none"
    /\ Len(workers) < MaxRuns
    /\ start_button' = "disabled"
    /\ workers' = Append(workers, Worker("init", input_path_var, processing_mode, "unread"))
    /\ UNCHANGED <<mainloop, processing_mode, input_path_var, api_key_var, prompt_text,
                   messagebox, after_queue, progress_text, notGui>>

\* process_files: GeminiJSONGenerator(api_key) is built
WorkerInit(j) ==
    /\ mainloop
    /\ workers[j].pos = "init"
    /\ workers' = [workers EXCEPT ![j].pos = "mode"]
    /\ UNCHANGED <<mainloop, start_button, processing_mode, input_path_var, api_key_var,
                   prompt_text, messagebox, after_queue, progress_text, notGui>>

\* process_files: GeminiJSONGenerator(api_key) raises
WorkerInitRaise(j) ==
    /\ mainloop
    /\ workers[j].pos = "init"
    /\ workers' = [workers EXCEPT ![j].pos = "except"]
    /\ UNCHANGED <<mainloop, start_button, processing_mode, input_path_var, api_key_var,
                   prompt_text, messagebox, after_queue, progress_text, notGui>>

\* process_files: self.processing_mode.get()
WorkerReadMode(j) ==
    /\ mainloop
    /\ workers[j].pos = "mode"
    /\ workers' = [workers EXCEPT ![j].pos = "process", ![j].mode = processing_mode]
    /\ progress_text' = "started"
    /\ UNCHANGED <<mainloop, start_button, processing_mode, input_path_var, api_key_var,
                   prompt_text, messagebox, after_queue, notGui>>

\* what processing the path in the mode can end with: single-file processing
\* of a folder fails in read_text_file, batch processing of a file raises in
\* os.listdir
Outcomes(input_path, mode) ==
    IF mode = "single"
    THEN (IF input_path = "file" THEN {"done", "failed"} ELSE {"failed"})
    ELSE (IF input_path = "folder" THEN {"done", "raise"} ELSE {"raise"})

\* process_files: the branch for the mode, to its last log_message
WorkerProcess(j) ==
    /\ mainloop
    /\ workers[j].pos = "process"
    /\ \E o \in Outcomes(workers[j].input_path, workers[j].mode) \ {"raise"} :
          progress_text' = o
    /\ workers' = [workers EXCEPT ![j].pos = "finally"]
    /\ UNCHANGED <<mainloop, start_button, processing_mode, input_path_var, api_key_var,
                   prompt_text, messagebox, after_queue, notGui>>

\* process_files: the branch for the mode raises
WorkerProcessRaise(j) ==
    /\ mainloop
    /\ workers[j].pos = "process"
    /\ "raise" \in Outcomes(workers[j].input_path, workers[j].mode)
    /\ workers' = [workers EXCEPT ![j].pos = "except"]
    /\ UNCHANGED <<mainloop, start_button, processing_mode, input_path_var, api_key_var,
                   prompt_text, messagebox, after_queue, progress_text, notGui>>

\* process_files with the handler re-raising in place of reaching finally
WorkerExcept_lost(j) ==
    /\ mainloop
    /\ workers[j].pos = "except"
    /\ progress_text' = "error"
    /\ workers' = [workers EXCEPT ![j] = Finished]
    /\ UNCHANGED <<mainloop, start_button, processing_mode, input_path_var, api_key_var,
                   prompt_text, messagebox, after_queue, notGui>>

\* process_files: `except Exception` logs the error
WorkerExcept(j) ==
    /\ mainloop
    /\ workers[j].pos = "except"
    /\ progress_text' = "error"
    /\ workers' = [workers EXCEPT ![j].pos = "finally"]
    /\ UNCHANGED <<mainloop, start_button, processing_mode, input_path_var, api_key_var,
                   prompt_text, messagebox, after_queue, notGui>>

\* process_files: finally queues the re-enabling callback; the thread ends
WorkerFinally(j) ==
    /\ mainloop
    /\ workers[j].pos = "finally"
    /\ after_queue' = after_queue + 1
    /\ workers' = [workers EXCEPT ![j] = Finished]
    /\ UNCHANGED <<mainloop, start_button, processing_mode, input_path_var, api_key_var,
                   prompt_text, messagebox, progress_text, notGui>>

\* the main loop runs a queued `lambda: self.start_button.config(state='normal')`
AfterCallback ==
    /\ mainloop
    /\ after_queue > 0
    /\ after_queue' = after_queue - 1
    /\ start_button' = "normal"
    /\ UNCHANGED <<mainloop, processing_mode, input_path_var, api_key_var, prompt_text,
                   messagebox, workers, progress_text, notGui>>

\* the quit button: root.quit ends the main loop, the program exits and its
\* daemon threads with it
Quit ==
    /\ UserCanAct
    /\ mainloop' = FALSE
    /\ UNCHANGED <<start_button, processing_mode, input_path_var, api_key_var,
                   prompt_text, messagebox, workers, after_queue, progress_text, notGui>>

WorkerStep ==
    \E j \in 1..Len(workers) :
        \/ WorkerInit(j)
        \/ WorkerInitRaise(j)
        \/ WorkerReadMode(j)
        \/ WorkerProcess(j)
        \/ WorkerProcessRaise(j)
        \/ WorkerExcept(j)
        \/ WorkerFinally(j)

UserStep ==
    \/ \E m \in Modes : on_mode_change(m)
    \/ \E p \in Paths : SetInputPath(p)
    \/ \E v \in {"", "key"} : SetApiKey(v)
    \/ \E v \in {"", "prompt"} : SetPrompt(v)
    \/ StartRejected
    \/ DismissMessage
    \/ start_processing
    \/ Quit

NextGUI ==
    \/ UserStep
    \/ WorkerStep
    \/ AfterCallback

(***************************************************************************)
(* Inputs                                                                  *)
(***************************************************************************)
LineSet == {EmptyLine, Line(0, 2), Line(100, 1), Line(3900, 0), Line(4100, 3),
            Line(8000, 0), Line(12001, 0)}

Docs(n) == UNION {[1..m -> LineSet] : m \in 1..n}

WordCounts == {0, 1, 4000, 4001, 5000, 7999, 8000, 9000, 11999, 12000, 12001,
               16000, 16001}

Src == Name("a", <<>>)

NoName == Name("", <<>>)

FolderDocs == {<<Line(4000, 0)>>,
               <<Line(2500, 1), Line(2500, 0), Line(10, 0)>>,
               <<Line(4100, 3), Line(4000, 0), Line(1000, 0)>>,
               <<Line(100, 0), Line(8000, 0)>>,
               <<Line(12001, 0)>>}

CandidateNames == {Name("a", <<>>), Name("a", <<Shang>>), Name("b", <<>>)}

Folders == UNION {[S -> {JoinLines(d) : d \in FolderDocs}] :
                  S \in {T \in SUBSET CandidateNames : Cardinality(T) <= MaxFiles}}

(***************************************************************************)
(* split_text_file called on one file with any character count             *)
(***************************************************************************)
InitSplit ==
    /\ \E doc \in Docs(MaxLines) : fs = (Src :> JoinLines(doc))
    /\ word_count \in WordCounts
    /\ file_path = Src
    /\ pc = "split_read"
    /\ faults = 0
    /\ errlog = {}
    /\ txt_files = <<>>
    /\ k = 0
    /\ file_data = <<>>
    /\ long_files = <<>>
    /\ csv = <<>>
    /\ file_vars = <<>>
    /\ selected_files = <<>>
    /\ success_count = 0
    /\ error_count = 0
    /\ summary = "none"
    /\ lines = <<>>
    /\ parts = 0
    /\ suffixes = <<>>
    /\ current_word_count = 0
    /\ split_positions = <<>>
    /\ i = 0
    /\ created_files = <<>>
    /\ result = <<>>
    /\ NovelIdle
    /\ LlmIdle
    /\ GuiIdle

SpecSplit == InitSplit /\ [][SplitStep]_vars

(***************************************************************************)
(* split_novel_by_chapters run on one novel                                *)
(***************************************************************************)
MaxNovelLines == 3 \* longest novel, in lines

Header(num, title) == NovelLine(0, TRUE, num, 1, title, "", 0)

NovelLineSet ==
    {Header(<<1>>, <<"x">>),
     Header(<<0, 1>>, <<"x">>),
     Header(<<1>>, <<"x", "?">>),
     Header(<<2>>, <<"y">>),
     NovelLine(1, TRUE, <<1>>, 2, <<"x">>, "", 1),
     NovelLine(0, TRUE, <<1>>, 0, <<>>, "", 0),
     NovelLine(0, FALSE, <<>>, 0, <<>>, "p", 0),
     NovelLine(1, FALSE, <<>>, 0, <<>>, "q", 1),
     NovelLine(1, FALSE, <<>>, 0, <<>>, "", 0),
     NovelEmpty}

NovelDocs(n) == UNION {[1..m -> NovelLineSet] : m \in 1..n}

InitNovel ==
    /\ novel_file \in {[exists |-> FALSE, content |-> <<>>]}
          \cup {[exists |-> TRUE, content |-> NovelJoin(d)] : d \in NovelDocs(MaxNovelLines)}
    /\ novel_lines = <<>>
    /\ nv_i = 0
    /\ chapters = <<>>
    /\ current_chapter = <<>>
    /\ current_content = <<>>
    /\ out_folder = <<>>
    /\ nv_report = [status |-> "none", count |-> 0]
    /\ pc = "novel_start"
    /\ faults = 0
    /\ fs = <<>>
    /\ errlog = {}
    /\ txt_files = <<>>
    /\ k = 0
    /\ file_data = <<>>
    /\ long_files = <<>>
    /\ csv = <<>>
    /\ file_vars = <<>>
    /\ selected_files = <<>>
    /\ success_count = 0
    /\ error_count = 0
    /\ summary = "none"
    /\ file_path = NoName
    /\ word_count = 0
    /\ lines = <<>>
    /\ parts = 0
    /\ suffixes = <<>>
    /\ current_word_count = 0
    /\ split_positions = <<>>
    /\ i = 0
    /\ created_files = <<>>
    /\ result = <<>>
    /\ LlmIdle
    /\ GuiIdle

SpecNovel == InitNovel /\ [][NextNovel]_vars

(***************************************************************************)
(* The generator run from the command line on one file or on a folder     *)
(***************************************************************************)
MaxResp == 3 \* longest response of the single-file runs, in tokens
MaxLlmFiles == 2 \* most .txt files in the folder of a batch run

Responses(n) == UNION {[1..m -> Tokens] : m \in 0..n}

\* the responses of the batch runs: an array, the empty array, prose, a number
BatchResponses == {<<"[", "1", "]">>, <<"[", "]">>, <<"t">>, <<"1">>}

LlmFile(readable, raises, response, has_dir) ==
    [readable |-> readable, raises |-> raises, response |-> response,
     has_dir |-> has_dir]

LlmFileSet(responses, dirs) ==
    {LlmFile(FALSE, FALSE, <<>>, d) : d \in dirs}
      \cup {LlmFile(TRUE, TRUE, <<>>, d) : d \in dirs}
      \cup {LlmFile(TRUE, FALSE, r, d) : r \in responses, d \in dirs}

InitLLM ==
    /\ \/ /\ llm_mode = "single"
          /\ llm_files \in {<<f>> : f \in LlmFileSet(Responses(MaxResp), BOOLEAN)}
       \/ /\ llm_mode = "batch"
          /\ llm_files \in UNION {[1..m -> LlmFileSet(BatchResponses, {TRUE})] :
                                    m \in 0..MaxLlmFiles}
    /\ llm_i = 0
    /\ llm_text = <<>>
    /\ llm_ret = <<>>
    /\ llm_out = <<>>
    /\ results = <<>>
    /\ trace = <<>>
    /\ llm_report = "none"
    /\ pc = "llm_start"
    /\ faults = 0
    /\ fs = <<>>
    /\ errlog = {}
    /\ txt_files = <<>>
    /\ k = 0
    /\ file_data = <<>>
    /\ long_files = <<>>
    /\ csv = <<>>
    /\ file_vars = <<>>
    /\ selected_files = <<>>
    /\ success_count = 0
    /\ error_count = 0
    /\ summary = "none"
    /\ file_path = NoName
    /\ word_count = 0
    /\ lines = <<>>
    /\ parts = 0
    /\ suffixes = <<>>
    /\ current_word_count = 0
    /\ split_positions = <<>>
    /\ i = 0
    /\ created_files = <<>>
    /\ result = <<>>
    /\ NovelIdle
    /\ GuiIdle

SpecLLM == InitLLM /\ [][NextLLM]_vars

(***************************************************************************)
(* The generator's window from GeminiGUI() and run()                       *)
(***************************************************************************)
InitGUI ==
    /\ mainloop = TRUE
    /\ start_button = "normal"
    /\ processing_mode = "single"
    /\ input_path_var = ""
    /\ api_key_var = ""
    /\ prompt_text = "prompt"
    /\ messagebox = "none"
    /\ workers = <<>>
    /\ after_queue = 0
    /\ progress_text = "none"
    /\ pc = "gui"
    /\ faults = 0
    /\ fs = <<>>
    /\ errlog = {}
    /\ txt_files = <<>>
    /\ k = 0
    /\ file_data = <<>>
    /\ long_files = <<>>
    /\ csv = <<>>
    /\ file_vars = <<>>
    /\ selected_files = <<>>
    /\ success_count = 0
    /\ error_count = 0
    /\ summary = "none"
    /\ file_path = NoName
    /\ word_count = 0
    /\ lines = <<>>
    /\ parts = 0
    /\ suffixes = <<>>
    /\ current_word_count = 0
    /\ split_positions = <<>>
    /\ i = 0
    /\ created_files = <<>>
    /\ result = <<>>
    /\ NovelIdle
    /\ LlmIdle

SpecGUI == InitGUI /\ [][NextGUI]_vars

\* the threads are scheduled and the API calls and file operations return;
\* the main loop runs the callbacks queued with after
SpecGUIFair == SpecGUI /\ WF_vars(WorkerStep) /\ WF_vars(AfterCallback)

(***************************************************************************)
(* The analyzer run on a folder: analyze_folder, then the dialog           *)
(***************************************************************************)
Init ==
    /\ fs \in Folders
    /\ pc = "start"
    /\ faults = 0
    /\ errlog = {}
    /\ txt_files = <<>>
    /\ k = 0
    /\ file_data = <<>>
    /\ long_files = <<>>
    /\ csv = <<>>
    /\ file_vars = <<>>
    /\ selected_files = <<>>
    /\ success_count = 0
    /\ error_count = 0
    /\ summary = "none"
    /\ file_path = NoName
    /\ word_count = 0
    /\ lines = <<>>
    /\ parts = 0
    /\ suffixes = <<>>
    /\ current_word_count = 0
    /\ split_positions = <<>>
    /\ i = 0
    /\ created_files = <<>>
    /\ result = <<>>
    /\ NovelIdle
    /\ LlmIdle
    /\ GuiIdle

Next ==
    \/ NoTxtFiles
    \/ Glob
    \/ CountWordsOk
    \/ CountWordsFail
    \/ ReportAllSafe
    \/ ReportLongFiles
    \/ Toggle
    \/ select_all
    \/ deselect_all
    \/ cancel_dialog
    \/ split_selected_files
    \/ BatchCall
    \/ BatchReturn
    \/ BatchSummary
    \/ SplitReadOk
    \/ SplitReadFail
    \/ SplitPlan
    \/ SplitScanLine
    \/ SplitScanEnd
    \/ SplitWriteOk
    \/ SplitWriteFail
    \/ SplitIndexError
    \/ SplitUnlinkOk
    \/ SplitUnlinkFail

Spec == Init /\ [][Next]_vars

(***************************************************************************)
(* Properties                                                              *)
(***************************************************************************)
SplitPcs == {"split_read", "split_plan", "split_scan", "split_write", "split_ret"}

\* the contents of the named files joined with the line separator
RECURSIVE JoinParts(_, _)
JoinParts(folder, names) ==
    IF names = <<>> THEN <<>>
    ELSE IF Len(names) = 1 THEN folder[Head(names)]
    ELSE folder[Head(names)] \o <<NL>> \o JoinParts(folder, Tail(names))

\* C1: when split_text_file has written its parts and returns them, the part
\* files joined in part order with the line separator have exactly the lines
\* of the document that was read.
C1_RoundTrip ==
    (pc = "split_ret" /\ result # <<>>)
        => SplitLines(JoinParts(fs, result)) = lines

\* C2: after the scan the split-point list has exactly n+1 entries for the n
\* parts of the plan.
C2_PointCount ==
    pc = "split_write" => Len(split_positions) = parts + 1

C4_FailureKeepsSource ==
    [][/\ (pc \in SplitPcs /\ faults' > faults)
            => (pc' = "split_ret" /\ result' = <<>>)
       /\ (pc' = "split_ret" /\ result' = <<>>) => file_path' \in DOMAIN fs'
       /\ (pc = "split_ret" /\ result = <<>>)
            => (error_count' = error_count + 1 /\ success_count' = success_count)
      ]_vars

\* the write of the third of three parts failed
C4_Witness ==
    /\ pc = "split_ret"
    /\ result = <<>>
    /\ faults = 1
    /\ parts = 3
    /\ Len(created_files) = 2
    /\ file_path \in DOMAIN fs

\* C5: the plan has 2 parts and 2 labels for 4000 < c < 8000, 3 parts and 3
\* labels for 8000 <= c < 12000, otherwise ((c - 1) div 4000) + 1 parts
\* labelled 1..n (div rounding down); 5000 -> 2, 9000 -> 3, 16001 -> 5; the
\* number of labels is the number of parts.
C5_PartPlan ==
    pc \in {"split_scan", "split_write"} =>
        /\ Len(suffixes) = parts
        /\ (4000 < word_count /\ word_count < 8000) => parts = 2
        /\ (8000 <= word_count /\ word_count < 12000) => parts = 3
        /\ (word_count <= 4000 \/ word_count >= 12000) =>
              /\ (parts - 1) * 4000 <= word_count - 1
              /\ word_count - 1 < parts * 4000
              /\ \A j \in 1..parts : suffixes[j] = Num(j)
        /\ word_count = 5000 => parts = 2
        /\ word_count = 9000 => parts = 3
        /\ word_count = 16001 => parts = 5

C5_Witness ==
    pc = "split_scan" /\ word_count = 16001 /\ parts = 5 /\ Len(suffixes) = 5

\* C6: for every character count the plan has at least one part.
C6_AtLeastOnePart ==
    pc \in {"split_scan", "split_write"} => parts >= 1

\* C7: split_text_file is only ever called for a file that analyze_folder
\* counted at more than 4000 characters, with that count; a file counted at
\* 4000 or less is never the file being split.
C7_OnlyLongFilesSplit ==
    pc \in SplitPcs =>
        /\ word_count > 4000
        /\ \E j \in 1..Len(file_data) :
              file_data[j].path = file_path /\ file_data[j].word_count = word_count
        /\ \A j \in 1..Len(file_data) :
              file_data[j].word_count <= 4000 => file_data[j].path # file_path

\* a split is running in a folder that also holds a file of exactly 4000
C7_Witness ==
    /\ pc = "split_read"
    /\ \E j \in 1..Len(file_data) : file_data[j].word_count = 4000

\* C8: in a split batch the files before position k have each been counted
\* once as a success or a failure, the loop goes on after a failure, and the
\* summary is shown when success_count + error_count is the number of selected
\* files.
C8_BatchCounts ==
    /\ (pc = "batch" \/ pc \in SplitPcs) => success_count + error_count = k - 1
    /\ pc \in SplitPcs =>
          (k <= Len(selected_files) /\ file_path = selected_files[k].path)
    /\ summary # "none" =>
          /\ success_count + error_count = Len(selected_files)
          /\ (summary = "Split Complete") <=> (error_count = 0)

\* the second selected file is attempted after the first one failed
C8_Witness ==
    pc = "split_read" /\ k = 2 /\ error_count = 1

AnyContent == {<<>>} \cup {JoinLines(d) : d \in FolderDocs}

\* C9: in the report of the analysis pass the row of a file that could not be
\* read differs from the row of any file that was read.
C9_FailedDistinguishable ==
    \A j \in 1..Len(csv) :
        csv[j].filename \in errlog
            => \A c \in AnyContent : csv[j] # ReportRow(csv[j].filename, count_words(c))

\* C10: no part write of one split replaces a selected file.  (Part names of
\* two different files never coincide, so a selected source is the only file
\* of another split that a part write can replace.)
C10_NoReplace ==
    [][(pc = "split_write" /\ pc' = "split_write")
          => \A j \in 1..Len(selected_files) :
                created_files'[Len(created_files')] # selected_files[j].path
      ]_vars

\* C11: after the scan the split-point list starts at 0, ends at the number of
\* lines of the document and never decreases.
C11_PointsOrdered ==
    pc = "split_write" =>
        /\ split_positions[1] = 0
        /\ split_positions[Len(split_positions)] = Len(lines)
        /\ \A j \in 1..(Len(split_positions) - 1) :
              split_positions[j] <= split_positions[j + 1]

\* the scan recorded a point and the last part was closed at the line count
C11_Witness ==
    /\ pc = "split_write"
    /\ Len(split_positions) = 3
    /\ split_positions[2] < split_positions[3]

\* non-whitespace characters of the first j lines
RECURSIVE LinesTotal(_, _)
LinesTotal(ls, j) ==
    IF j = 0 THEN 0 ELSE LinesTotal(ls, j - 1) + ls[j].nw

\* C12: the scan records a point right after line i+1 exactly when the total
\* of the lines read so far is at least (points recorded, the initial 0
\* included) * 4000 and fewer than n points are recorded; the first recorded
\* point is the index just after the first line at which the total reaches
\* 4000, and the lines before the k-th recorded point total at least k * 4000.
C12_ScanRule ==
    [][/\ (pc = "split_scan" /\ pc' = "split_scan") =>
             LET total == LinesTotal(lines, i + 1)
                 due == /\ total >= Len(split_positions) * 4000
                        /\ Len(split_positions) < parts
             IN  /\ i' = i + 1
                 /\ current_word_count' = total
                 /\ due => split_positions' = Append(split_positions, i + 1)
                 /\ ~due => split_positions' = split_positions
       /\ pc' = "split_scan" =>
             /\ Len(split_positions') >= 2 =>
                   /\ LinesTotal(lines', split_positions'[2]) >= 4000
                   /\ \A j \in 1..(split_positions'[2] - 1) :
                         LinesTotal(lines', j) < 4000
             /\ \A n \in 1..(Len(split_positions') - 1) :
                   LinesTotal(lines', split_positions'[n + 1]) >= n * 4000
      ]_vars

\* lines 1-3 are the first to total 4000 or more: the first point is index 3
C12_Witness ==
    /\ pc = "split_scan"
    /\ parts = 2
    /\ Len(lines) = 3
    /\ LinesTotal(lines, 2) < 4000
    /\ split_positions = <<0, 3>>

\* C19: every part written by a successful split of a file whose count is
\* its actual non-whitespace count (over 4000) has a non-whitespace character.
C19_PartsNonEmpty ==
    (/\ pc = "split_ret"
     /\ result # <<>>
     /\ word_count > 4000
     /\ word_count = LinesTotal(lines, Len(lines)))
        => \A j \in 1..Len(result) : count_words(fs[result[j]]) > 0

\* the lines of the files of chapters j.. in chapter order, read back
RECURSIVE ChapterFileLines(_, _, _)
ChapterFileLines(folder, chs, j) ==
    IF j > Len(chs) THEN <<>>
    ELSE NovelSplit(folder[ChapterFile(chs[j])]) \o ChapterFileLines(folder, chs, j + 1)

\* the stripped input lines from the first chapter header on
RECURSIVE FromFirstHeader(_)
FromFirstHeader(ls) ==
    IF ls = <<>> THEN <<>>
    ELSE IF IsChapterHeader(Strip(Head(ls)))
         THEN [j \in 1..Len(ls) |-> Strip(ls[j])]
         ELSE FromFirstHeader(Tail(ls))

\* C20: after a run that reports its chapter count, there are as many chapter
\* files as chapters reported, no two chapters share a file, and the files in
\* chapter order hold the stripped input lines from the first header on.
C20_OneFilePerChapter ==
    (pc = "novel_done" /\ nv_report.status = "ok") =>
        /\ Cardinality(DOMAIN out_folder) = nv_report.count
        /\ \A a, b \in 1..Len(chapters) :
              ChapterFile(chapters[a]) = ChapterFile(chapters[b]) => a = b
        /\ ChapterFileLines(out_folder, chapters, 1) = FromFirstHeader(novel_lines)

Occurrences(t, e) == Cardinality({j \in 1..Len(t) : t[j] = e})

Delays(t) == Cardinality({j \in 1..Len(t) : t[j].ev = "sleep"})

\* C14: in a batch the files are processed one after another in order; each
\* return of a file before the last is followed by the delay and then by the
\* call for the next file, whatever the file's outcome; nothing follows the
\* last file's return; a file gets at most one API request; a finished batch
\* of k files has made k-1 delays.
C14_DelaysBetweenFiles ==
    llm_mode = "batch" =>
        /\ \A j \in 1..Len(trace) :
              /\ (trace[j].ev = "return" /\ j < Len(trace)) =>
                    /\ trace[j].idx < Len(llm_files)
                    /\ trace[j + 1] = Event("sleep", trace[j].idx)
              /\ trace[j].ev = "sleep" =>
                    /\ j > 1
                    /\ trace[j - 1] = Event("return", trace[j].idx)
                    /\ trace[j].idx < Len(llm_files)
              /\ trace[j].ev = "call" =>
                    \/ j = 1 /\ trace[j].idx = 1
                    \/ j > 1 /\ trace[j - 1] = Event("sleep", trace[j].idx - 1)
              /\ trace[j].ev = "request" =>
                    j > 1 /\ trace[j - 1] = Event("call", trace[j].idx)
        /\ \A idx \in 1..Len(llm_files) :
              /\ Occurrences(trace, Event("request", idx)) <= 1
              /\ Occurrences(trace, Event("call", idx)) <= 1
        /\ (pc = "llm_done" /\ llm_files # <<>>) =>
              /\ Delays(trace) = Len(llm_files) - 1
              /\ Len(results) = Len(llm_files)
              /\ trace[Len(trace)] = Event("return", Len(llm_files))

C14_Witness ==
    /\ pc = "llm_done"
    /\ llm_mode = "batch"
    /\ Len(llm_files) = 2
    /\ results = <<<<1, FALSE>>, <<2, TRUE>>>>
    /\ Delays(trace) = 1
    /\ Occurrences(trace, Event("request", 1)) = 0

\* C15: without I/O errors, every output file holds a JSON array, and a
\* response whose extracted text is not a parseable JSON array leaves no
\* output file and makes generate_json_for_file return None.
C15_SavesOnlyArrays ==
    faults = 0 =>
        /\ \A f \in DOMAIN llm_out :
              /\ json_loads(llm_out[f]) # <<>>
              /\ json_loads(llm_out[f])[1].type = "array"
        /\ (pc = "llm_returned" /\ llm_text # <<>>
              /\ \/ json_loads(ExtractJson(llm_text)) = <<>>
                 \/ json_loads(ExtractJson(llm_text))[1].type # "array") =>
              /\ llm_i \notin DOMAIN llm_out
              /\ llm_ret = <<>>

\* C18: without I/O errors and for a response that is rejected or gives an
\* array, a single-file run reports success exactly when the output file was
\* written, and exactly when the batch flag for the same returned value
\* (result is not None) would be True.
C18_ReportMatchesFile ==
    (pc = "llm_done" /\ llm_mode = "single" /\ faults = 0
       /\ (llm_ret = <<>> \/ llm_ret[1].type = "array")) =>
        /\ llm_report = "ok" <=> 1 \in DOMAIN llm_out
        /\ llm_report = "ok" <=> IsNotNone(llm_ret)

ActiveWorkers == {j \in 1..Len(workers) : Active(workers[j])}

\* C13: at most one process_files thread is active at any time, the Start
\* button is disabled while one is, and a step that starts a thread starts it
\* with no other thread active and leaves the button disabled.
C13_OneWorker ==
    /\ Cardinality(ActiveWorkers) <= 1
    /\ ActiveWorkers # {} => start_button = "disabled"

C13_Witness ==
    /\ Len(workers) = 2
    /\ ~Active(workers[1])
    /\ workers[2].pos = "process"
    /\ start_button = "disabled"

\* C16: the mode a process_files thread applies is the mode that was selected
\* when its Start was pressed.
C16_ModeAtStart ==
    \A j \in ActiveWorkers :
        workers[j].mode # "unread" => workers[j].mode = workers[j].mode_at_start

\* C17 as stated: whenever the Start button is disabled it is later enabled.
C17_Reenabled == (start_button = "disabled") ~> (start_button = "normal")

\* C17: whenever the Start button is disabled, it is later enabled again or
\* the window has been quit.
C17_ReenabledUnlessQuit ==
    (start_button = "disabled") ~> (start_button = "normal" \/ ~mainloop)

C17_Witness ==
    /\ Len(workers) = 1
    /\ workers[1].pos = "finished"
    /\ progress_text = "error"
    /\ after_queue = 0
    /\ start_button = "normal"
    /\ mainloop

====
